---- MODULE Spec2Model ----
(***************************************************************************)
(* Model of dbt/adapters/vertica/connections.py: the connection manager of *)
(* the Vertica adapter.  The connection (state, handle), its credentials   *)
(* and the driver cursor of the last statement are the state; open and     *)
(* execute are the operations.  The driver (vertica_python) is the         *)
(* environment: what connect, cursor.execute, fetchall and nextset return  *)
(* or raise is chosen nondeterministically.  Every call a handler makes to *)
(* the driver or to release() is appended to log, in program order.        *)
(***************************************************************************)
EXTENDS Integers, Sequences, FiniteSets, TLC

\* Bounds of the model.
MaxSets == 2   \* result sets one statement can produce
MaxCols == 2   \* columns of the first result set
MaxRows == 1   \* rows of the first result set

\* Python's None and a present value.
None == <<>>
Some(x) == <<x>>

\* Connection objects vertica_python.connect can return.
Handles == {"h1", "h2"}

\* Exceptions the driver raises: DatabaseError is caught by
\* "except vertica_python.DatabaseError", InterfaceError only by
\* "except Exception".
DriverExceptions ==
    {"vertica_python.DatabaseError", "vertica_python.InterfaceError"}

IsDatabaseError(e) == e = "vertica_python.DatabaseError"

FrameworkExceptions ==
    {"FailedToConnectException", "DatabaseException", "RuntimeException"}

VARIABLES
    state,                \* connection.state
    handle,               \* connection.handle: None or Some(h)
    withMaterialization,  \* connection.credentials.withMaterialization
    op,                   \* the last operation called: "none", "open", "execute"
    input,                \* its arguments and what the driver was set to do
    pre,                  \* connection.state and handle on its entry
    cursor,               \* the driver cursor after the last execute
    log,                  \* the calls the last operation made, in order
    outcome               \* how it ended: returned value or raised exception

vars == <<state, handle, withMaterialization, op, input, pre, cursor, log, outcome>>

----------------------------------------------------------------------------
\* The driver cursor.  A statement yields 1..MaxSets result sets; values are
\* symbolic and pairwise distinct, so any mix-up of copied data is visible.

ResultSet(i, w, k) ==
    [description |-> IF w = 0 THEN None
                     ELSE Some([j \in 1..w |-> <<(<<"name", i, j>>), (<<"type", i, j>>)>>]),
     rows        |-> [r \in 1..k |-> [j \in 1..w |-> <<"val", i, r, j>>]],
     message     |-> <<"msg", i>>,
     rowcount    |-> <<"rowcount", i>>]

\* Shapes of the first result set: no description (no rows to fetch), or
\* 1..MaxCols columns and 0..MaxRows rows.
Shapes == {<<0, 0>>} \cup ((1..MaxCols) \X (0..MaxRows))

\* Later result sets have one column and one row; the handlers never read
\* the description or the rows of a later set.
Script(n, sh) ==
    [i \in 1..n |-> IF i = 1 THEN ResultSet(1, sh[1], sh[2]) ELSE ResultSet(i, 1, 1)]

NoPlan == [at |-> "none", k |-> 0, exc |-> ""]

\* Which driver call raises, and what: cursor.execute, fetchall, or the
\* k-th call of nextset.
Plans(n) ==
    {NoPlan}
    \cup {[at |-> a, k |-> 0, exc |-> e] : a \in {"execute", "fetchall"}, e \in DriverExceptions}
    \cup {[at |-> "nextset", k |-> kk, exc |-> e] : kk \in 1..n, e \in DriverExceptions}

NoCursor == [sets |-> <<>>, pos |-> 0, plan |-> NoPlan]

description(c) == c.sets[c.pos].description
message(c) == c.sets[c.pos].message
rowcount(c) == c.sets[c.pos].rowcount

\* str(x)
str(x) == <<"str", x>>

Ev(call, result) == <<call, result>>

----------------------------------------------------------------------------
\* open(cls, connection)

\* What vertica_python.connect does in one call: returns a handle or raises.
ConnectResults ==
    {[exc |-> "", handle |-> Some(h)] : h \in Handles}
    \cup {[exc |-> e, handle |-> None] : e \in DriverExceptions}

\* Which call of the ALTER SESSION block raises, if any.
AlterPlans == {"none", "cursor", "execute", "close"}

\* Mutant of alter_session: the block runs whatever withMaterialization is.
alter_session_Always(withMat, alter) ==
    IF alter = "cursor" THEN <<Ev("handle.cursor", "raise")>>
    ELSE IF alter = "execute"
         THEN <<Ev("handle.cursor", "ok"), Ev("cur.execute", "raise")>>
    ELSE IF alter = "close"
         THEN <<Ev("handle.cursor", "ok"), Ev("cur.execute", "ok"), Ev("cur.close", "raise")>>
    ELSE <<Ev("handle.cursor", "ok"), Ev("cur.execute", "ok"), Ev("cur.close", "ok")>>

\* Lines 76-85: the calls of the ALTER SESSION block.  An exception of any
\* of them ends the block and is swallowed by "except Exception: pass".
alter_session(withMat, alter) ==
    IF ~withMat THEN <<>>
    ELSE IF alter = "cursor" THEN <<Ev("handle.cursor", "raise")>>
    ELSE IF alter = "execute"
         THEN <<Ev("handle.cursor", "ok"), Ev("cur.execute", "raise")>>
    ELSE IF alter = "close"
         THEN <<Ev("handle.cursor", "ok"), Ev("cur.execute", "ok"), Ev("cur.close", "raise")>>
    ELSE <<Ev("handle.cursor", "ok"), Ev("cur.execute", "ok"), Ev("cur.close", "ok")>>

\* Mutant of open: the except branch does not set connection.state.
open_FailKeepsState(st, hd, withMat, connect, alter) ==
    IF st = "open"
    THEN [state |-> st, handle |-> hd, log |-> <<>>,
          outcome |-> [kind |-> "return", exc |-> "", value |-> None]]
    ELSE IF connect.exc # ""
    THEN [state |-> st, handle |-> None,
          log |-> <<Ev("connect", "raise")>>,
          outcome |-> [kind |-> "raise", exc |-> "FailedToConnectException", value |-> None]]
    ELSE [state |-> "open", handle |-> connect.handle,
          log |-> <<Ev("connect", "ok")>> \o alter_session(withMat, alter),
          outcome |-> [kind |-> "return", exc |-> "", value |-> None]]

\* Mutant of open: a failed connect is attempted a second time.
open_Retry(st, hd, withMat, connect, alter) ==
    IF st = "open"
    THEN [state |-> st, handle |-> hd, log |-> <<>>,
          outcome |-> [kind |-> "return", exc |-> "", value |-> None]]
    ELSE IF connect.exc # ""
    THEN [state |-> "fail", handle |-> None,
          log |-> <<Ev("connect", "raise"), Ev("connect", "raise")>>,
          outcome |-> [kind |-> "raise", exc |-> "FailedToConnectException", value |-> None]]
    ELSE [state |-> "open", handle |-> connect.handle,
          log |-> <<Ev("connect", "ok")>> \o alter_session(withMat, alter),
          outcome |-> [kind |-> "return", exc |-> "", value |-> None]]

\* Mutant of open: no early return for a connection that is already open.
open_NoEarlyReturn(st, hd, withMat, connect, alter) ==
    IF connect.exc # ""
    THEN [state |-> "fail", handle |-> None,
          log |-> <<Ev("connect", "raise")>>,
          outcome |-> [kind |-> "raise", exc |-> "FailedToConnectException", value |-> None]]
    ELSE [state |-> "open", handle |-> connect.handle,
          log |-> <<Ev("connect", "ok")>> \o alter_session(withMat, alter),
          outcome |-> [kind |-> "return", exc |-> "", value |-> None]]

open(st, hd, withMat, connect, alter) ==
    IF st = "open"
    THEN [state |-> st, handle |-> hd, log |-> <<>>,
          outcome |-> [kind |-> "return", exc |-> "", value |-> None]]
    ELSE IF connect.exc # ""
    THEN [state |-> "fail", handle |-> None,
          log |-> <<Ev("connect", "raise")>>,
          outcome |-> [kind |-> "raise", exc |-> "FailedToConnectException", value |-> None]]
    ELSE [state |-> "open", handle |-> connect.handle,
          log |-> <<Ev("connect", "ok")>> \o alter_session(withMat, alter),
          outcome |-> [kind |-> "return", exc |-> "", value |-> None]]

----------------------------------------------------------------------------
\* Mutant of exception_handler: the exception is converted but release is
\* not called.
exception_handler_NoRelease(bodyExc) ==
    IF bodyExc = "" THEN [log |-> <<>>, exc |-> ""]
    ELSE IF IsDatabaseError(bodyExc)
         THEN [log |-> <<>>, exc |-> "DatabaseException"]
    ELSE [log |-> <<>>, exc |-> "RuntimeException"]

\* exception_handler(self, sql): the body's exception, "" when it raised
\* nothing, to the calls the handler makes and the exception that leaves it.
exception_handler(bodyExc) ==
    IF bodyExc = "" THEN [log |-> <<>>, exc |-> ""]
    ELSE IF IsDatabaseError(bodyExc)
         THEN [log |-> <<Ev("release", "ok")>>, exc |-> "DatabaseException"]
    ELSE [log |-> <<Ev("release", "ok")>>, exc |-> "RuntimeException"]

\* self.add_query(sql, auto_begin): the framework runs cursor.execute inside
\* "with self.exception_handler(sql)"; the cursor is then on its first set.
add_query(c) ==
    LET bodyExc == IF c.plan.at = "execute" THEN c.plan.exc ELSE ""
        h == exception_handler(bodyExc)
    IN  [log |-> <<Ev("cursor.execute", IF bodyExc = "" THEN "ok" ELSE "raise")>> \o h.log,
         exc |-> h.exc,
         cursor |-> [c EXCEPT !.pos = 1]]

\* get_response(cls, cursor)
get_response(c) ==
    [message |-> str(message(c)), rows_affected |-> rowcount(c)]

\* while cursor.nextset(): check = cursor._message
\* n nextset calls were made before; the driver moves to the next result
\* set and returns True, or returns a false value when none is left.
RECURSIVE while_nextset(_, _)
while_nextset(c, n) ==
    IF c.plan.at = "nextset" /\ c.plan.k = n + 1
    THEN [log |-> <<Ev("nextset", "raise")>>, exc |-> c.plan.exc, cursor |-> c]
    ELSE IF c.pos < Len(c.sets)
    THEN LET rest == while_nextset([c EXCEPT !.pos = @ + 1], n + 1)
         IN  [rest EXCEPT !.log = <<Ev("nextset", "True")>> \o @]
    ELSE [log |-> <<Ev("nextset", "False")>>, exc |-> "", cursor |-> c]

\* cls.process_results(column_names, rows): one dict(zip(column_names, row))
\* per row.
process_results(column_names, rows) ==
    [r \in 1..Len(rows) |->
        [name \in {column_names[j] : j \in 1..Len(column_names)} |->
            LET j == CHOOSE j \in 1..Len(column_names) :
                        /\ column_names[j] = name
                        /\ \A jj \in 1..Len(column_names) :
                              column_names[jj] = name => jj <= j
            IN  rows[r][j]]]

\* dbt.clients.agate_helper.table_from_data_flat(data, column_names): a
\* table of the named columns, each row read from its dict by column name.
table_from_data_flat(data, column_names) ==
    [column_names |-> column_names,
     rows |-> [r \in 1..Len(data) |->
                  [j \in 1..Len(column_names) |-> data[r][column_names[j]]]]]

\* dbt.clients.agate_helper.empty_table()
empty_table == [column_names |-> <<>>, rows |-> <<>>]

\* Mutant of get_result_from_cursor: the column names are read from the
\* second element of each description entry.
get_result_from_cursor_TypeCode(c) ==
    IF description(c) = None
    THEN [log |-> <<>>, exc |-> "", cursor |-> c,
          table |-> table_from_data_flat(<<>>, <<>>)]
    ELSE LET desc == description(c)[1]
             column_names == [j \in 1..Len(desc) |-> desc[j][2]]
         IN  IF c.plan.at = "fetchall"
             THEN [log |-> <<Ev("fetchall", "raise")>>, exc |-> c.plan.exc,
                   cursor |-> c, table |-> empty_table]
             ELSE LET rows == c.sets[c.pos].rows
                      d == while_nextset(c, 0)
                  IN  [log |-> <<Ev("fetchall", "ok")>> \o d.log,
                       exc |-> d.exc,
                       cursor |-> d.cursor,
                       table |-> IF d.exc # "" THEN empty_table
                                 ELSE table_from_data_flat(
                                          process_results(column_names, rows),
                                          column_names)]

\* get_result_from_cursor(cls, cursor)
get_result_from_cursor(c) ==
    IF description(c) = None
    THEN [log |-> <<>>, exc |-> "", cursor |-> c,
          table |-> table_from_data_flat(<<>>, <<>>)]
    ELSE LET desc == description(c)[1]
             column_names == [j \in 1..Len(desc) |-> desc[j][1]]
         IN  IF c.plan.at = "fetchall"
             THEN [log |-> <<Ev("fetchall", "raise")>>, exc |-> c.plan.exc,
                   cursor |-> c, table |-> empty_table]
             ELSE LET rows == c.sets[c.pos].rows
                      d == while_nextset(c, 0)
                  IN  [log |-> <<Ev("fetchall", "ok")>> \o d.log,
                       exc |-> d.exc,
                       cursor |-> d.cursor,
                       table |-> IF d.exc # "" THEN empty_table
                                 ELSE table_from_data_flat(
                                          process_results(column_names, rows),
                                          column_names)]

\* Mutant of execute: the response is built after the result sets were
\* fetched or drained.
execute_ResponseAfterDrain(c, fetch) ==
    LET aq == add_query(c)
        Raise(lg, cur, e) ==
            [log |-> lg, cursor |-> cur,
             outcome |-> [kind |-> "raise", exc |-> e, value |-> None]]
        Return(lg, cur, response, table) ==
            [log |-> lg, cursor |-> cur,
             outcome |-> [kind |-> "return", exc |-> "",
                          value |-> Some([response |-> response, table |-> table])]]
    IN  IF aq.exc # "" THEN Raise(aq.log, aq.cursor, aq.exc)
        ELSE LET lg == aq.log
             IN  IF fetch
                 THEN LET g == get_result_from_cursor(aq.cursor)
                      IN  IF g.exc # ""
                          THEN Raise(lg \o g.log, g.cursor, g.exc)
                          ELSE Return(lg \o g.log \o <<Ev("get_response", "ok")>>, g.cursor,
                                      get_response(g.cursor), g.table)
                 ELSE LET d == while_nextset(aq.cursor, 0)
                      IN  IF d.exc # ""
                          THEN Raise(lg \o d.log \o <<Ev("release", "ok")>>,
                                     d.cursor, "DatabaseException")
                          ELSE Return(lg \o d.log \o <<Ev("get_response", "ok")>>, d.cursor,
                                      get_response(d.cursor), empty_table)

\* execute(self, sql, auto_begin, fetch) on the cursor add_query creates.
execute(c, fetch) ==
    LET aq == add_query(c)
        Raise(lg, cur, e) ==
            [log |-> lg, cursor |-> cur,
             outcome |-> [kind |-> "raise", exc |-> e, value |-> None]]
        Return(lg, cur, response, table) ==
            [log |-> lg, cursor |-> cur,
             outcome |-> [kind |-> "return", exc |-> "",
                          value |-> Some([response |-> response, table |-> table])]]
    IN  IF aq.exc # "" THEN Raise(aq.log, aq.cursor, aq.exc)
        ELSE LET response == get_response(aq.cursor)
                 lg == aq.log \o <<Ev("get_response", "ok")>>
             IN  IF fetch
                 THEN LET g == get_result_from_cursor(aq.cursor)
                      IN  IF g.exc # ""
                          THEN Raise(lg \o g.log, g.cursor, g.exc)
                          ELSE Return(lg \o g.log, g.cursor, response, g.table)
                 ELSE LET d == while_nextset(aq.cursor, 0)
                      IN  IF d.exc # ""
                          THEN Raise(lg \o d.log \o <<Ev("release", "ok")>>,
                                     d.cursor, "DatabaseException")
                          ELSE Return(lg \o d.log, d.cursor, response, empty_table)

----------------------------------------------------------------------------
NoConnect == [exc |-> "", handle |-> None]

Init ==
    /\ state = "init"
    /\ handle = None
    /\ withMaterialization \in BOOLEAN
    /\ op = "none"
    /\ input = [fetch |-> FALSE, connect |-> NoConnect, alter |-> "none", cursor |-> NoCursor]
    /\ pre = [state |-> "init", handle |-> None]
    /\ cursor = NoCursor
    /\ log = <<>>
    /\ outcome = [kind |-> "none", exc |-> "", value |-> None]

\* A call of open on the connection; the driver answers the connect call and
\* the calls of the ALTER SESSION block, when open makes them.
Open ==
    \E connect \in ConnectResults, alter \in AlterPlans :
        LET r == open(state, handle, withMaterialization, connect, alter)
        IN  /\ state' = r.state
            /\ handle' = r.handle
            /\ op' = "open"
            /\ input' = [fetch |-> FALSE, connect |-> connect, alter |-> alter,
                         cursor |-> NoCursor]
            /\ pre' = [state |-> state, handle |-> handle]
            /\ cursor' = NoCursor
            /\ log' = r.log
            /\ outcome' = r.outcome
            /\ UNCHANGED withMaterialization

\* A call of execute: a statement is run on the open connection.
Execute ==
    /\ state = "open"
    /\ \E fetch \in BOOLEAN, n \in 1..MaxSets, sh \in Shapes :
         \E plan \in Plans(n) :
           LET c0 == [sets |-> Script(n, sh), pos |-> 0, plan |-> plan]
               r == execute(c0, fetch)
           IN  /\ op' = "execute"
               /\ input' = [fetch |-> fetch, connect |-> NoConnect, alter |-> "none",
                            cursor |-> c0]
               /\ pre' = [state |-> state, handle |-> handle]
               /\ cursor' = r.cursor
               /\ log' = r.log
               /\ outcome' = r.outcome
               /\ UNCHANGED <<state, handle, withMaterialization>>

Next == Open \/ Execute

Spec == Init /\ [][Next]_vars

----------------------------------------------------------------------------
\* Reading the log of the last operation.

Positions(call) == {i \in 1..Len(log) : log[i][1] = call}
Count(call) == Cardinality(Positions(call))
Called(call) == Positions(call) # {}
Raised(call) == \E i \in Positions(call) : log[i][2] = "raise"
DriverCalls == {"connect", "cursor.execute", "fetchall", "nextset"}
DriverRaised == \E call \in DriverCalls : Raised(call)
FirstSet == input.cursor.sets[1]
Returned == outcome.kind = "return"
Raises(e) == outcome.kind = "raise" /\ outcome.exc = e

\* C1: every driver exception raised by open or execute reaches the caller as
\* one of the three framework exceptions: a failed connect as
\* FailedToConnectException, a DatabaseError inside exception_handler as
\* DatabaseException, any other exception inside it as RuntimeException, and
\* a failure of fetchall or nextset in execute (fetch true or false) as a
\* framework exception too.
C1_DriverExceptionsMapped ==
    /\ outcome.kind = "raise" => outcome.exc \in FrameworkExceptions
    /\ (op = "open" /\ Raised("connect")) => Raises("FailedToConnectException")
    /\ (op = "execute" /\ Raised("cursor.execute")) =>
          IF IsDatabaseError(input.cursor.plan.exc)
          THEN Raises("DatabaseException")
          ELSE Raises("RuntimeException")
    /\ (op = "execute" /\ (Raised("fetchall") \/ Raised("nextset"))) =>
          outcome.kind = "raise" /\ outcome.exc \in FrameworkExceptions

\* C2: when exception_handler catches an exception, or the drain of execute
\* with fetch=False fails, release is called exactly once, as the last call
\* before a framework exception is raised; and no failure of a driver call in
\* execute is swallowed: the caller gets an exception.
C2_ReleaseOnceThenRaise ==
    op = "execute" =>
        /\ (Raised("cursor.execute") \/ (~input.fetch /\ Raised("nextset"))) =>
              /\ Count("release") = 1
              /\ log[Len(log)] = Ev("release", "ok")
              /\ outcome.kind = "raise"
              /\ outcome.exc \in FrameworkExceptions
        /\ DriverRaised => outcome.kind = "raise"
        /\ Returned => ~DriverRaised /\ Count("release") = 0

\* C2 witness: the drain of execute with fetch=False failed at its second
\* nextset call and the connection was released.
C2_Witness ==
    /\ op = "execute" /\ ~input.fetch
    /\ log[Len(log) - 1] = Ev("nextset", "raise")
    /\ Count("nextset") = 2
    /\ Count("release") = 1
    /\ Raises("DatabaseException")

\* C3: open on a connection that is not open ends either with state 'open',
\* the handle connect returned and a normal return, or with state 'fail',
\* handle None and FailedToConnectException; so state 'open' implies a handle
\* and state 'fail' implies handle None.
C3_OpenOrFail ==
    /\ (op = "open" /\ pre.state # "open") =>
          \/ /\ input.connect.exc = ""
             /\ state = "open"
             /\ handle = input.connect.handle
             /\ Returned
          \/ /\ input.connect.exc # ""
             /\ state = "fail"
             /\ handle = None
             /\ Raises("FailedToConnectException")
    /\ state = "open" => handle # None
    /\ state = "fail" => handle = None

\* C3 witness: both outcomes happened: open failed, and a later open of the
\* failed connection succeeded.
C3_Witness ==
    /\ op = "open" /\ pre.state = "fail" /\ pre.handle = None
    /\ state = "open" /\ handle = Some("h1")

\* C4: one call of open calls connect at most once; a failed connect is
\* raised as FailedToConnectException with no further driver call; an open on
\* a connection in state 'fail' calls connect again.
C4_NoRetry ==
    op = "open" =>
        /\ Count("connect") <= 1
        /\ Raised("connect") =>
              log = <<Ev("connect", "raise")>> /\ Raises("FailedToConnectException")
        /\ pre.state = "fail" => Count("connect") = 1

\* C4 witness: a second open on a failed connection called connect once more
\* and the connection is open.
C4_Witness ==
    /\ op = "open" /\ pre.state = "fail"
    /\ log[1] = Ev("connect", "ok") /\ Count("connect") = 1
    /\ state = "open" /\ handle = Some("h2")

\* C5: when execute returns normally (fetch true or false), the result sets
\* were drained: no result set is left pending on the cursor, and a nextset
\* loop that ran ended with nextset returning a false value.
C5_DrainedOnReturn ==
    (op = "execute" /\ Returned) =>
        /\ cursor.pos = Len(cursor.sets)
        /\ Called("nextset") => log[Len(log)] = Ev("nextset", "False")

C7_OpenIdempotent ==
    (op = "open" /\ pre.state = "open") =>
        /\ state = "open" /\ state = pre.state
        /\ handle = pre.handle
        /\ log = <<>>
        /\ Returned

\* C7 witness: open was called on an open connection whose credentials ask
\* for WITH materialization, while the driver would have answered.
C7_Witness ==
    /\ op = "open" /\ pre.state = "open" /\ withMaterialization
    /\ input.connect.exc = "" /\ input.connect.handle # pre.handle
    /\ Returned

\* C8: get_response is called right after add_query and before any fetchall
\* or nextset, so the response is that of the first result set; with
\* fetch=False the returned table is the empty table.
C8_ResponseBeforeDrain ==
    op = "execute" =>
        /\ \A i \in Positions("fetchall") \cup Positions("nextset") :
              /\ log[1] = Ev("cursor.execute", "ok")
              /\ log[2] = Ev("get_response", "ok")
              /\ i > 2
        /\ Returned =>
              /\ Count("get_response") = 1
              /\ outcome.value[1].response =
                    [message |-> str(FirstSet.message),
                     rows_affected |-> FirstSet.rowcount]
              /\ ~input.fetch => outcome.value[1].table = empty_table

\* C8 witness: execute without fetch returned after draining to a later
\* result set, whose message and rowcount differ from the first one's.
C8_Witness ==
    /\ op = "execute" /\ ~input.fetch /\ Returned
    /\ cursor.pos = 2
    /\ message(cursor) # FirstSet.message
    /\ rowcount(cursor) # FirstSet.rowcount

\* C9 as stated: the ALTER SESSION statement is executed in open if and only
\* if connect succeeded in that call and withMaterialization is true, and
\* open then returns the open connection.
C9_AlterIffConnectedAndFlag ==
    op = "open" =>
        /\ Called("cur.execute") <=>
              (Called("connect") /\ ~Raised("connect") /\ withMaterialization)
        /\ Called("cur.execute") =>
              Returned /\ state = "open" /\ handle = input.connect.handle

\* C9 amended: the ALTER SESSION block is entered (handle.cursor() is called)
\* if and only if connect succeeded in that call and withMaterialization is
\* true; the statement is executed if and only if, in addition, creating the
\* cursor did not raise; whichever call of the block raises, open returns
\* the connection with state 'open' and the handle connect returned.
C9_AlterAttemptedIffConnectedAndFlag ==
    op = "open" =>
        /\ Called("handle.cursor") <=>
              (Called("connect") /\ ~Raised("connect") /\ withMaterialization)
        /\ Called("cur.execute") <=>
              (Called("handle.cursor") /\ ~Raised("handle.cursor"))
        /\ Called("cur.close") <=>
              (Called("cur.execute") /\ ~Raised("cur.execute"))
        /\ Called("handle.cursor") =>
              Returned /\ state = "open" /\ handle = input.connect.handle

\* C9 witness: creating the cursor raised, the statement was not executed
\* and open returned the open connection.
C9_Witness ==
    /\ op = "open" /\ withMaterialization
    /\ Raised("handle.cursor") /\ ~Called("cur.execute")
    /\ Returned /\ state = "open" /\ handle = input.connect.handle

====
